---- MODULE Spec2Model ----
(***************************************************************************)
(* Call-handoff orchestration of the Rozetka sales agent.                  *)
(*                                                                         *)
(* src/src/agent.py: RozetkaSalesAgent (the transfer_to_human tool) and    *)
(* sales_agent (the participant_connected / disconnected room handlers).   *)
(* src/src/services/firebase_service.py: the call record store.            *)
(*                                                                         *)
(* One asyncio event loop drives a call.  A room callback runs to its end  *)
(* without interleaving; a coroutine runs without interleaving between two *)
(* awaits that really suspend (the httpx POST, publish_data).  The methods *)
(* of FirebaseService are `async def` but contain no suspending await: the *)
(* Firestore client is synchronous, so `await firebase.request_handoff()`  *)
(* completes inside the step that issues it.  Tasks made by                *)
(* asyncio.create_task run later, in creation order.                       *)
(***************************************************************************)
EXTENDS Integers, Sequences, FiniteSets, TLC

\* ------------------------------------------------------------------ bounds

\* transfer_to_human invocations the conversational model makes per call.
MaxToolCalls == 2
\* Operator joins a call accepts (each creates a status task).
MaxOperatorJoins == 1
\* send_link invocations of a call suspended on their POST at a time.
MaxLinkPosts == 1
\* Tool invocations of the stand-alone agent.
MaxToolRuns == 2
\* Direct calls of FirebaseService operations, and log_call_start among them.
MaxStoreCalls == 3
MaxCreates == 2
\* transfer_to_human invocations over two concurrent calls.
MaxPairToolCalls == 2
\* Status tasks created over two concurrent calls.
MaxPairTasks == 1
\* POST /send-link requests the gateway handles.
MaxRequests == 3

\* ------------------------------------------------------------- value sets

Calls == {"c1", "c2"}

\* Free text is a sequence of tokens (runs of characters); the double quote
\* and the backslash are tokens of their own.
DQ == "\""
BS == "\\"

\* The reasons the conversational model gives in a call.
Reasons == {<<"customer requested manager">>, <<"complex issue">>}

\* Participant identities, as sequences of tokens (str.startswith is a prefix test).
HumanOperatorPrefix == <<"human", "_", "operator">>

Identities ==
    { <<"human", "_", "operator", "_", "7">>,
      <<"human", "_", "operator">>,
      <<"human", "_", "agent">>,
      <<"+380501234567">> }

\* Which of the two set_audio_enabled(False) calls raises, if any.
AudioFailures == {"none", "input", "output"}

NoReason == <<"<unset>">>
NoCallId == <<"<none>">>

VARIABLES
    use_firebase,   \* FirebaseService._use_firebase (and _db is not None)
    calls_db,       \* Firestore collection "calls": document id -> record
    next_doc,       \* ids the store has handed out so far
    jobs,           \* the calls this run dispatches to sales_agent
    call,           \* per call: the agent, its session, its room and its log
    cleanup_tasks,  \* per call: userdata["cleanup_tasks"], every task created
    tool,           \* a stand-alone agent and the tool invocation it is running
    gateway,        \* the link dispatch gateway (services/telegram_webhook.py)
    created,        \* the ids log_call_start has returned, in order
    op              \* the last FirebaseService operation called directly

\* What the call machine never touches: the stand-alone agent, the gateway
\* and the record of direct store calls.
harness == <<tool, gateway, created, op>>

vars == <<use_firebase, calls_db, next_doc, jobs, call, cleanup_tasks, harness>>

\* ---------------------------------------------------------------- helpers

\* Mutant: only the first token of the prefix is compared.
StartsWithHead(s, p) == s # <<>> /\ Head(s) = Head(p)

\* str.startswith
StartsWith(s, p) ==
    /\ Len(s) >= Len(p)
    /\ SubSeq(s, 1, Len(p)) = p

IsHumanOperator(identity) == StartsWith(identity, HumanOperatorPrefix)

\* ------------------------------------------------------- FirebaseService

DocId(n) == <<"doc", n>>

MockCallId(room_name) == <<"mock-call-", room_name>>

CallData ==
    [status |-> "in_progress", handoff_requested |-> FALSE,
     handoff_reason |-> NoReason, transcript |-> <<>>]

\* log_call_start: the new store and the returned call id.  `ok` is whether
\* doc_ref.set() succeeds when the store is live.
log_call_start(db, use, n, room_name, ok) ==
    IF use /\ ok
    THEN [db |-> [d \in DOMAIN db \cup {DocId(n)} |->
                    IF d = DocId(n) THEN CallData ELSE db[d]],
          id |-> DocId(n)]
    ELSE [db |-> db, id |-> MockCallId(room_name)]

\* Whether update_call_status reaches `return` at line 134: the store is live
\* and document(call_id).update() does not raise (`ok`: the backend answers;
\* update() of a missing document raises NotFound).  Otherwise the write is
\* only logged at line 138.
UpdateApplies(db, use, call_id, ok) == use /\ ok /\ call_id \in DOMAIN db

\* Mutant: the update is applied to every document of the collection.
update_every_call(db, use, call_id, fields, ok) ==
    IF UpdateApplies(db, use, call_id, ok)
    THEN [d \in DOMAIN db |->
            [f \in DOMAIN db[d] |-> IF f \in DOMAIN fields THEN fields[f] ELSE db[d][f]]]
    ELSE db

\* update_call_status: update() sets the named fields and keeps the others.
update_call_status(db, use, call_id, fields, ok) ==
    IF UpdateApplies(db, use, call_id, ok)
    THEN [db EXCEPT ![call_id] =
            [f \in DOMAIN @ |-> IF f \in DOMAIN fields THEN fields[f] ELSE @[f]]]
    ELSE db

HandoffFields(reason) ==
    [status |-> "handoff", handoff_requested |-> TRUE, handoff_reason |-> reason]

request_handoff(db, use, call_id, reason, ok) ==
    update_call_status(db, use, call_id, HandoffFields(reason), ok)

\* ------------------------------------------------------ RozetkaSalesAgent

\* The transfer_to_human invocations of a call are coroutines that differ only
\* in where they are and in their reason: a bag of <<position, reason>>.
\* "register": suspended on the dashboard POST; "broadcast": suspended on
\* publish_data; "done": returned.
HandlerStates == {"register", "broadcast", "done"} \X Reasons

NoHandlers == [h \in HandlerStates |-> 0]

\* The invocations in the bag `handlers` that are at one of `positions`
\* (a bag never holds more than MaxToolCalls of a kind).
HandlersAt(handlers, positions) ==
    Cardinality({x \in HandlerStates \X (1..MaxToolCalls) :
                    x[1][1] \in positions /\ x[2] <= handlers[x[1]]})

\* The transfer_to_human invocations a call has seen.
Invocations(c) == HandlersAt(call[c].handlers, {"register", "broadcast", "done"})

\* Mutant: the flag starts set.
InitialHandoffPendingSet == TRUE

\* __init__: self._handoff_pending = False
InitialHandoffPending == FALSE

NewCall ==
    [phase |-> "new", room_name |-> "room-A", call_id |-> NoCallId,
     handoff_pending |-> InitialHandoffPending,
     input_audio |-> TRUE, output_audio |-> TRUE,
     disconnected |-> FALSE, handoff_ignored |-> FALSE, mock_logged |-> FALSE,
     handlers |-> NoHandlers, link_posts |-> 0]

\* Mutant: the assignment is left out of the entry of the handler.
PendingAfterRequestDeferred(pending) == pending

\* Mutant: the handler toggles the flag.
PendingAfterRequestToggled(pending) == ~pending

\* transfer_to_human, line 152: self._handoff_pending = True
PendingAfterRequest(pending) == TRUE

\* One invocation of the bag moves from a position to the next.
Advance(handlers, reason, from, to) ==
    [handlers EXCEPT ![<<from, reason>>] = @ - 1, ![<<to, reason>>] = @ + 1]

\* ---------------------------------------------------------------- actions

\* sales_agent up to ctx.connect(): create the call record, the agent and the
\* session, then register the room handlers.
StartCall(c, ok) ==
    /\ c \in jobs
    /\ call[c].phase = "new"
    /\ LET r == log_call_start(calls_db, use_firebase, next_doc + 1,
                               call[c].room_name, ok)
       IN /\ calls_db' = r.db
          /\ next_doc' = IF r.id = DocId(next_doc + 1) THEN next_doc + 1 ELSE next_doc
          /\ call' = [call EXCEPT ![c].phase = "active", ![c].call_id = r.id]
    /\ UNCHANGED <<use_firebase, jobs, cleanup_tasks, harness>>

\* transfer_to_human from its entry to the first suspending await (the
\* dashboard POST): set the flag, persist the handoff, issue the POST.
TransferToHuman(c, reason, ok) ==
    /\ call[c].phase = "active"
    /\ Invocations(c) < MaxToolCalls
    /\ call' = [call EXCEPT
            ![c].handoff_pending = PendingAfterRequest(@),
            ![c].mock_logged =
                @ \/ ~UpdateApplies(calls_db, use_firebase, call[c].call_id, ok),
            ![c].handlers = [@ EXCEPT ![<<"register", reason>>] = @ + 1]]
    /\ calls_db' = request_handoff(calls_db, use_firebase, call[c].call_id, reason, ok)
    /\ UNCHANGED <<use_firebase, next_doc, jobs, cleanup_tasks, harness>>

\* The dashboard POST returns or raises (caught); the handler goes on to
\* publish the handoff data packet and suspends on it.
RegisterDone(c, reason) ==
    /\ call[c].handlers[<<"register", reason>>] > 0
    /\ call' = [call EXCEPT ![c].handlers = Advance(@, reason, "register", "broadcast")]
    /\ UNCHANGED <<use_firebase, calls_db, next_doc, jobs, cleanup_tasks, harness>>

\* Mutant: the handler switches the AI output on once the packet is sent.
PutOnHoldEnablesOutput(agent) == [agent EXCEPT !.output_audio = TRUE]

\* Mutant: the handler disables the AI output once the packet is sent.
PutOnHoldDisablesOutput(agent) == [agent EXCEPT !.output_audio = FALSE]

\* Lines 209-212, "put customer on hold": a log line only.
PutOnHold(agent) == agent

\* publish_data returns or raises (caught); the handler returns its text.
BroadcastDone(c, reason) ==
    /\ call[c].handlers[<<"broadcast", reason>>] > 0
    /\ call' = [call EXCEPT ![c] =
            PutOnHold([@ EXCEPT !.handlers = Advance(@, reason, "broadcast", "done")])]
    /\ UNCHANGED <<use_firebase, calls_db, next_doc, jobs, cleanup_tasks, harness>>

\* send_link up to its suspending await: the POST to the gateway is issued.
\* (What the tool returns is modelled step by step below.)
SendLink(c) ==
    /\ call[c].phase = "active"
    /\ call[c].link_posts < MaxLinkPosts
    /\ call' = [call EXCEPT ![c].link_posts = @ + 1]
    /\ UNCHANGED <<use_firebase, calls_db, next_doc, jobs, cleanup_tasks, harness>>

\* The POST of a send_link is over, with a response or an exception
\* (caught); the tool returns its text.
LinkDispatched(c, transport) ==
    /\ call[c].link_posts > 0
    /\ call' = [call EXCEPT ![c].link_posts = @ - 1]
    /\ UNCHANGED <<use_firebase, calls_db, next_doc, jobs, cleanup_tasks, harness>>

\* Mutant: the handler does not look at the flag.
HandsOverUnchecked(pending, identity) == IsHumanOperator(identity)

\* Mutant: the handler tests the flag the wrong way round.
HandsOverNegated(pending, identity) == IsHumanOperator(identity) /\ ~pending

\* on_participant_connected, lines 296-300: the branch that hands over.
HandsOver(pending, identity) == IsHumanOperator(identity) /\ pending

\* A created task: firebase.update_call_status(call_id, status).
Task(call_id, status) == [call_id |-> call_id, status |-> status, done |-> FALSE]

\* Mutant: the join handler writes the handoff status again.
JoinTaskHandoff(call_id) == Task(call_id, "handoff")

\* on_participant_connected, lines 314-316: the task it creates.
JoinTask(call_id) == Task(call_id, "human_handling")

\* on_disconnect, lines 325-327: the task it creates.
DisconnectTask(call_id) == Task(call_id, "completed")

\* The tasks of a call that accepted operator joins have created.
OperatorJoins(c) ==
    Cardinality({k \in DOMAIN cleanup_tasks[c] :
                    cleanup_tasks[c][k].status # "completed"})

\* on_participant_connected: a synchronous room callback.  An input call
\* that raises skips the output call; a call that raises changes nothing.
ParticipantConnected(c, identity, fail) ==
    /\ call[c].phase = "active"
    /\ IF HandsOver(call[c].handoff_pending, identity)
       THEN /\ OperatorJoins(c) < MaxOperatorJoins
            /\ call' = [call EXCEPT
                    ![c].input_audio = IF fail = "input" THEN @ ELSE FALSE,
                    ![c].output_audio = IF fail = "none" THEN FALSE ELSE @]
            /\ cleanup_tasks' = [cleanup_tasks EXCEPT
                    ![c] = Append(@, JoinTask(call[c].call_id))]
       ELSE /\ fail = "none"
            /\ call' = [call EXCEPT
                    ![c].handoff_ignored = @ \/ IsHumanOperator(identity)]
            /\ UNCHANGED cleanup_tasks
    /\ UNCHANGED <<use_firebase, calls_db, next_doc, jobs, harness>>

\* on_disconnect: a synchronous room callback, once per room.
Disconnected(c) ==
    /\ call[c].phase = "active"
    /\ ~call[c].disconnected
    /\ call' = [call EXCEPT ![c].disconnected = TRUE]
    /\ cleanup_tasks' = [cleanup_tasks EXCEPT
            ![c] = Append(@, DisconnectTask(call[c].call_id))]
    /\ UNCHANGED <<use_firebase, calls_db, next_doc, jobs, harness>>

\* The tasks of a call that have not run yet.
PendingTasks(c) ==
    {k \in DOMAIN cleanup_tasks[c] : ~cleanup_tasks[c][k].done}

\* The event loop runs the oldest task that has not run.
NextTask(c) == CHOOSE k \in PendingTasks(c) : \A j \in PendingTasks(c) : k <= j

RunTask(c, ok) ==
    /\ PendingTasks(c) # {}
    /\ LET k == NextTask(c)
           t == cleanup_tasks[c][k]
       IN /\ calls_db' = update_call_status(calls_db, use_firebase, t.call_id,
                                            [status |-> t.status], ok)
          /\ cleanup_tasks' = [cleanup_tasks EXCEPT ![c][k].done = TRUE]
          /\ call' = [call EXCEPT ![c].mock_logged =
                @ \/ ~UpdateApplies(calls_db, use_firebase, t.call_id, ok)]
    /\ UNCHANGED <<use_firebase, next_doc, jobs, harness>>

\* ------------------------------------------------------------- exceptions

\* How a call of a collaborator ends: "ok", or the class of the exception it
\* raises.  httpx.HTTPStatusError, TimeoutException and ConnectError derive
\* from httpx.HTTPError; every failure of a collaborator is an Exception.
HTTPErrors == {"HTTPStatusError", "TimeoutException", "ConnectError"}

Outcomes == {"ok", "Exception"} \cup HTTPErrors

IsInstance(kind, class) ==
    \/ class = "Exception" /\ kind \in Outcomes \ {"ok"}
    \/ class = "HTTPError" /\ kind \in HTTPErrors

\* The first except clause of a try statement that catches `kind`
\* (0: none does, and the exception leaves the try statement).
ExceptClause(kind, clauses) ==
    LET catching == {i \in DOMAIN clauses : IsInstance(kind, clauses[i])}
    IN IF catching = {} THEN 0
       ELSE CHOOSE i \in catching : \A j \in catching : i <= j

Raises(kind, clauses) == kind # "ok" /\ ExceptClause(kind, clauses) = 0

\* The except clauses of the try statements, in source order.

\* Mutant: update_call_status lets the backend's exception through.
UpdateExceptNothing == <<>>

UpdateExcept == <<"Exception">>
PersistExcept == <<"Exception">>
TranscriptExcept == <<"Exception">>

\* Mutant: the dashboard POST is guarded against httpx errors only.
RegisterExceptHTTPOnly == <<"HTTPError">>

RegisterExcept == <<"Exception">>

\* Mutant: a failed publish_data is not caught.
BroadcastExceptNothing == <<>>

BroadcastExcept == <<"Exception">>

SendLinkExcept == <<"HTTPError", "Exception">>

\* ------------------------------------------------- the tools, step by step

\* A stand-alone RozetkaSalesAgent (as the tests build it: any of firebase,
\* call_id and room may be None) runs one tool invocation at a time, each
\* collaborator call ending in any of its outcomes.  The call machine above
\* is the same handler at the grain of its suspension points.

\* The return values of the tools.
TransferText ==
    <<"I'm connecting you with one of our team members now. Please hold for just a moment while I transfer you. They will have all the context from our conversation.">>

LinkSent(platform) ==
    <<"Link successfully sent via ", platform, ". Ask if they received it.">>

LinkNotSent(platform) ==
    <<"Sorry, I couldn't send the link via ", platform,
      " right now. Please try again later or I can give you the link verbally.">>

LinkIssue ==
    <<"There was an issue sending the link. Would you like me to read it to you instead?">>

NoReturn == <<>>

\* The platform argument the conversational model passes to send_link.
PlatformArgs == {"telegram", "viber", "whatsapp", "Telegram"}

\* SendLinkRequest.platform: Literal["telegram", "viber"].
SupportedPlatforms == {"telegram", "viber"}

\* The reason argument of transfer_to_human (default: the empty string).
ReasonArgs ==
    { <<>>,
      <<"customer requested manager">>,
      <<"customer said ", DQ, "manager", DQ>> }

\* str(call_id) inside an f-string.
FormatCallId(call_id) ==
    IF call_id = NoCallId THEN <<"None">> ELSE <<ToString(call_id)>>

\* The data packet of line 203: the f-string pastes call_id and reason between
\* double quotes as they are; encode() to UTF-8 keeps the characters.
Payload(call_id, reason) ==
    <<"{", DQ, "type", DQ, ":", DQ, "handoff", DQ, ",",
      DQ, "call_id", DQ, ":", DQ>> \o FormatCallId(call_id)
    \o <<DQ, ",", DQ, "reason", DQ, ":", DQ>> \o reason \o <<DQ, "}">>

\* A text of the session history, character by character in runs: the
\* sequence of <<character, count>>, adjacent runs differing in character
\* (<<>>: the empty string, or None; both are falsy).
TextLen(text) ==
    LET Sum[i \in 0..Len(text)] == IF i = 0 THEN 0 ELSE Sum[i - 1] + text[i][2]
    IN Sum[Len(text)]

\* text[:n]
RECURSIVE Slice(_, _)
Slice(text, n) ==
    IF n <= 0 \/ text = <<>> THEN <<>>
    ELSE IF Head(text)[2] >= n THEN << <<Head(text)[1], n>> >>
    ELSE <<Head(text)>> \o Slice(Tail(text), n - Head(text)[2])

\* Line 172: the slice bound.
TranscriptLimit == 500

\* Mutant: the slice keeps one character more.
TruncateLate(text) == Slice(text, TranscriptLimit + 1)

\* Line 172: item.text_content[:500]
Truncate(text) == Slice(text, TranscriptLimit)

\* Line 169: 'user' if item.role == 'user' else 'agent'
Speaker(role) == IF role = "user" THEN "user" ELSE "agent"

\* Lines 170-174: the entry appended for an item.
TranscriptEntry(item) ==
    [speaker |-> Speaker(item.role), text |-> Truncate(item.text_content),
     timestamp |-> <<>>]

\* Line 168: the items that get an entry.  Only a message has text_content;
\* `and` does not read it from another item.
Transcribed(item) == item.type = "message" /\ item.text_content # <<>>

\* Lines 162-176: the transcript of a history, in its order.
ExtractTranscript(items) ==
    LET kept == SelectSeq(items, Transcribed)
    IN [i \in DOMAIN kept |-> TranscriptEntry(kept[i])]

Message(role, text) == [type |-> "message", role |-> role, text_content |-> text]

FunctionCall == [type |-> "function_call", role |-> "none", text_content |-> <<>>]

\* context.session.history.items when the handoff is requested: no item; a
\* short and a 501-character message; a 500-character message, a function
\* call, an empty message, a 1000-character message.
Histories ==
    { <<>>,
      << Message("user", << <<"h", 5>> >>),
         Message("assistant", << <<"a", 499>>, <<"b", 2>> >>) >>,
      << Message("system", << <<"s", 500>> >>),
         FunctionCall,
         Message("user", <<>>),
         Message("assistant", << <<"a", 250>>, <<"b", 250>>, <<"c", 500>> >>) >> }

NewTool(firebase, call_id, room) ==
    [pc |-> "idle", name |-> "none", runs |-> 0,
     firebase |-> firebase, call_id |-> call_id, room |-> room,
     handoff_pending |-> InitialHandoffPending,
     input_audio |-> TRUE, output_audio |-> TRUE,
     reason |-> NoReason, platform |-> "none",
     attempted |-> {}, failed |-> {}, published |-> <<>>, posts |-> 0,
     history |-> <<>>, transcript |-> <<>>, registered |-> <<>>,
     response |-> [transport |-> "none", status |-> 0],
     ret |-> NoReturn, raised |-> FALSE]

\* A tool invocation starts: what the previous one left is forgotten.
Invoke(t, name) ==
    [t EXCEPT !.name = name, !.runs = @ + 1,
              !.reason = NoReason, !.platform = "none",
              !.attempted = {}, !.failed = {}, !.published = <<>>, !.posts = 0,
              !.history = <<>>, !.transcript = <<>>, !.registered = <<>>,
              !.response = [transport |-> "none", status |-> 0],
              !.ret = NoReturn, !.raised = FALSE]

\* An exception leaves the tool, or the tool goes on to `next`.
Continue(t, escapes, next) ==
    IF escapes THEN [t EXCEPT !.pc = "idle", !.raised = TRUE]
    ELSE [t EXCEPT !.pc = next]

\* transfer_to_human, lines 151-152.
ToolTransferEnter(reason) ==
    /\ tool.pc = "idle"
    /\ tool.runs < MaxToolRuns
    /\ tool' = [Invoke(tool, "transfer_to_human") EXCEPT
                    !.pc = "persist", !.reason = reason,
                    !.handoff_pending = PendingAfterRequest(@)]
    /\ UNCHANGED <<use_firebase, calls_db, next_doc, jobs, call, cleanup_tasks,
                   gateway, created, op>>

\* The agent has a store and a call id (line 155).
Persists(t) == t.firebase /\ t.call_id # NoCallId

\* Lines 154-159: firebase.request_handoff inside try/except.  `kind` is how
\* the backend ends document().update() when the store is live.
ToolPersist(kind) ==
    /\ tool.pc = "persist"
    /\ kind \in {"ok", "Exception"}
    /\ kind # "ok" => Persists(tool) /\ use_firebase
    /\ LET applies == UpdateApplies(calls_db, use_firebase, tool.call_id, kind = "ok")
           escapes == /\ Persists(tool) /\ use_firebase
                      /\ Raises(kind, UpdateExcept)
                      /\ Raises(kind, PersistExcept)
       IN IF Persists(tool)
          THEN /\ calls_db' = request_handoff(calls_db, use_firebase, tool.call_id,
                                              tool.reason, kind = "ok")
               /\ tool' = Continue(
                    [tool EXCEPT !.attempted = @ \cup {"persist"},
                                 !.failed = IF applies THEN @ ELSE @ \cup {"persist"}],
                    escapes, "transcript")
          ELSE /\ calls_db' = calls_db
               /\ tool' = Continue(tool, FALSE, "transcript")
    /\ UNCHANGED <<use_firebase, next_doc, jobs, call, cleanup_tasks,
                   gateway, created, op>>

\* Lines 161-176: read context.session.history inside try/except.  `kind`
\* is how reading context.session.history ends; when it raises, transcript
\* is still the empty list of line 162.
ToolTranscript(kind, items) ==
    /\ tool.pc = "transcript"
    /\ kind \in {"ok", "Exception"}
    /\ tool' = Continue(
            [tool EXCEPT !.failed = IF kind = "ok" THEN @ ELSE @ \cup {"transcript"},
                         !.history = items,
                         !.transcript = IF kind = "ok" THEN ExtractTranscript(items)
                                        ELSE <<>>],
            Raises(kind, TranscriptExcept), "register")
    /\ UNCHANGED <<use_firebase, calls_db, next_doc, jobs, call, cleanup_tasks,
                   gateway, created, op>>

\* Lines 184-192: the json body of the POST (the call's fields of it).
RegisterBody(t) ==
    [call_id |-> t.call_id, reason |-> t.reason, transcript |-> t.transcript]

\* Lines 178-197: the dashboard POST inside try/except.
ToolRegister(kind) ==
    /\ tool.pc = "register"
    /\ kind \in Outcomes \ {"HTTPStatusError"}
    /\ tool' = Continue(
            [tool EXCEPT !.attempted = @ \cup {"register"},
                         !.failed = IF kind = "ok" THEN @ ELSE @ \cup {"register"},
                         !.registered = Append(@, RegisterBody(tool))],
            Raises(kind, RegisterExcept), "broadcast")
    /\ UNCHANGED <<use_firebase, calls_db, next_doc, jobs, call, cleanup_tasks,
                   gateway, created, op>>

\* Lines 199-207: publish_data inside try/except, when the agent has a room.
ToolBroadcast(kind) ==
    /\ tool.pc = "broadcast"
    /\ kind \in {"ok", "Exception"}
    /\ kind # "ok" => tool.room
    /\ tool' =
        IF tool.room
        THEN Continue(
                [tool EXCEPT
                    !.attempted = @ \cup {"broadcast"},
                    !.failed = IF kind = "ok" THEN @ ELSE @ \cup {"broadcast"},
                    !.published = IF kind = "ok"
                                  THEN Append(@, Payload(tool.call_id, tool.reason))
                                  ELSE @],
                Raises(kind, BroadcastExcept), "return")
        ELSE Continue(tool, FALSE, "return")
    /\ UNCHANGED <<use_firebase, calls_db, next_doc, jobs, call, cleanup_tasks,
                   gateway, created, op>>

\* Line 214.
ToolReturn ==
    /\ tool.pc = "return"
    /\ tool' = [tool EXCEPT !.pc = "idle", !.ret = TransferText]
    /\ UNCHANGED <<use_firebase, calls_db, next_doc, jobs, call, cleanup_tasks,
                   gateway, created, op>>

\* ------------------------------------------- the link dispatch gateway

\* The module state of the gateway: the request counts, whether the three
\* TELEGRAM_* credentials are set, the global _telethon_client ("None", or a
\* client that is connected or not), what get_telethon_client returned last,
\* and the last response.
NewGateway ==
    [requests |-> 0, delivered |-> 0, configured |-> FALSE,
     telethon_client |-> "None", returned |-> "None", running |-> TRUE,
     last |-> [platform |-> "none", status |-> 0]]

\* Mutant: the gateway sends whatever is not telegram through Viber.
GatewayStatusViberDefault(platform, sent) ==
    IF platform = "telegram" /\ ~sent THEN 500 ELSE 200

\* POST /send-link: the status code of the response.  The request model
\* rejects an unsupported platform (422); `sent` is what
\* _send_telegram_mtproto returns; _send_viber returns True.
GatewayStatus(platform, sent) ==
    IF platform \notin SupportedPlatforms THEN 422
    ELSE IF platform = "telegram" THEN (IF sent THEN 200 ELSE 500)
    ELSE IF platform = "viber" THEN 200
    ELSE 400

\* The gateway after one request: a send function returned True exactly
\* when the response is 200.
gateway_send_link(g, platform, sent) ==
    [g EXCEPT
        !.requests = @ + 1,
        !.delivered = @ + (IF GatewayStatus(platform, sent) = 200 THEN 1 ELSE 0),
        !.last = [platform |-> platform, status |-> GatewayStatus(platform, sent)]]

\* How creating the Telethon client ends: "ok", or an exception raised
\* before the global is assigned ("construct": the import, int(), the
\* constructor) or by connect() ("connect").
ClientOutcomes == {"ok", "construct", "connect"}

\* get_telethon_client: the global afterwards and the value returned.
get_telethon_client(client, configured, how) ==
    IF client # "None" THEN [global |-> client, returns |-> client]
    ELSE IF ~configured THEN [global |-> "None", returns |-> "None"]
    ELSE IF how = "ok" THEN [global |-> "connected", returns |-> "connected"]
    ELSE IF how = "connect" THEN [global |-> "unconnected", returns |-> "None"]
    ELSE [global |-> "None", returns |-> "None"]

\* _send_telegram_mtproto: mock mode without a client; a client that is not
\* connected raises in get_entity, a connected one delivers or raises
\* (`delivers`); the exception is caught and False returned.
send_telegram_mtproto(client, delivers) ==
    IF client = "None" THEN TRUE
    ELSE client = "connected" /\ delivers

\* POST /send-link, handled by the gateway.
GatewaySendLink(platform, how, delivers) ==
    /\ gateway.running
    /\ gateway.requests < MaxRequests
    /\ LET r == get_telethon_client(gateway.telethon_client, gateway.configured, how)
           sent == IF platform = "telegram"
                   THEN send_telegram_mtproto(r.returns, delivers)
                   ELSE TRUE
       IN gateway' = [gateway_send_link(gateway, platform, sent) EXCEPT
                        !.telethon_client = IF platform = "telegram" THEN r.global ELSE @,
                        !.returned = IF platform = "telegram" THEN r.returns ELSE @]
    /\ UNCHANGED <<use_firebase, calls_db, next_doc, jobs, call, cleanup_tasks,
                   tool, created, op>>

\* The shutdown handler: the client is disconnected and forgotten.
GatewayShutdown ==
    /\ gateway.running
    /\ gateway' = [gateway EXCEPT !.running = FALSE, !.telethon_client = "None"]
    /\ UNCHANGED <<use_firebase, calls_db, next_doc, jobs, call, cleanup_tasks,
                   tool, created, op>>

\* Mutant: the response status is not looked at.
RaiseForStatusSkipped(status) == "ok"

\* response.raise_for_status(): "ok" for 2xx.
RaiseForStatus(status) ==
    IF status \in 200..299 THEN "ok" ELSE "HTTPStatusError"

\* How the POST to the gateway ends: with a response, or with an exception.
Transports == {"response", "TimeoutException", "ConnectError", "Exception"}

\* send_link, lines 106-113: the POST to the gateway is issued.
SendLinkEnter(platform) ==
    /\ tool.pc = "idle"
    /\ tool.runs < MaxToolRuns
    /\ tool' = [Invoke(tool, "send_link") EXCEPT
                    !.pc = "dispatch", !.platform = platform, !.posts = @ + 1]
    /\ UNCHANGED <<use_firebase, calls_db, next_doc, jobs, call, cleanup_tasks,
                   gateway, created, op>>

\* send_link, lines 113-132: the POST is over.  `reached`: the gateway
\* handled the request (always for a response, never for a failed connect,
\* either way for a timeout).
SendLinkDispatch(transport, reached, sent) ==
    /\ tool.pc = "dispatch"
    /\ transport = "response" => reached
    /\ transport \in {"ConnectError", "Exception"} => ~reached
    /\ sent \/ (reached /\ tool.platform = "telegram")
    /\ LET status == IF transport = "response"
                     THEN GatewayStatus(tool.platform, sent) ELSE 0
           kind == IF transport = "response" THEN RaiseForStatus(status) ELSE transport
           clause == ExceptClause(kind, SendLinkExcept)
       IN /\ gateway' = IF reached
                        THEN gateway_send_link(gateway, tool.platform, sent)
                        ELSE gateway
          /\ tool' = [Continue(tool, Raises(kind, SendLinkExcept), "idle") EXCEPT
                        !.response = [transport |-> transport, status |-> status],
                        !.ret = IF kind = "ok" THEN LinkSent(tool.platform)
                                ELSE IF clause = 1 THEN LinkNotSent(tool.platform)
                                ELSE IF clause = 2 THEN LinkIssue
                                ELSE NoReturn]
    /\ UNCHANGED <<use_firebase, calls_db, next_doc, jobs, call, cleanup_tasks,
                   created, op>>

\* ------------------------------------- FirebaseService, called directly

\* _init_firebase: True when the credentials file exists and the Admin SDK
\* initialises (`kind`: how initialize_app / firestore.client end).
init_firebase(creds_found, kind) == creds_found /\ kind = "ok"

InitExcept == <<"Exception">>
OrderExcept == <<"Exception">>
LogExcept == <<"Exception">>
AppendExcept == <<"Exception">>

\* The keys of an order context.
OrderFields ==
    {"order_id", "customer_name", "product_name", "product_price",
     "upsell_product", "upsell_price"}

\* Collection "orders": documents may lack any field but phone.
Orders ==
    { [id |-> "order-1", phone |-> <<"+380501234567">>,
       data |-> [customer_name |-> "Olena", product_name |-> "iPhone 15",
                 price |-> 39999, upsell_product |-> "AirPods",
                 upsell_price |-> 7999]],
      [id |-> "order-2", phone |-> <<"+380671112233">>,
       data |-> [product_name |-> "Lenovo IdeaPad"]] }

PhoneArgs == {<<"+380501234567">>, <<"+380671112233">>, <<"+380990000000">>}

\* dict.get(key, default)
Get(data, key, default) == IF key \in DOMAIN data THEN data[key] ELSE default

\* Mutant: the stored document is returned as it is.
OrderContextRaw(doc) == doc.data

\* Lines 66-73: the context built from a matching order document.
OrderContext(doc) ==
    [order_id |-> doc.id,
     customer_name |-> Get(doc.data, "customer_name", "Customer"),
     product_name |-> Get(doc.data, "product_name", "your order"),
     product_price |-> Get(doc.data, "price", 0),
     upsell_product |-> Get(doc.data, "upsell_product", "a premium warranty"),
     upsell_price |-> Get(doc.data, "upsell_price", 199)]

\* Lines 78-85: the mock record.
DefaultContext ==
    [order_id |-> "mock-123", customer_name |-> "Valued Customer",
     product_name |-> "Samsung Galaxy S24", product_price |-> 25999,
     upsell_product |-> "Premium Protection Plan", upsell_price |-> 1499]

\* The orders a query where("phone", "==", phone_number) streams.
Matching(orders, phone_number) == {doc \in orders : doc.phone = phone_number}

\* get_order_context: the first matching document when the store is live
\* and the query does not raise (`kind`), the mock record otherwise.
get_order_context(use, orders, phone_number, kind) ==
    IF use /\ kind = "ok" /\ Matching(orders, phone_number) # {}
    THEN OrderContext(CHOOSE doc \in Matching(orders, phone_number) : TRUE)
    ELSE DefaultContext

\* ArrayUnion: the entry is added unless the array holds it already.
ArrayUnion(array, entry) ==
    IF \E i \in DOMAIN array : array[i] = entry THEN array ELSE Append(array, entry)

\* append_transcript: update() of the transcript field, or the log line.
append_transcript(db, use, call_id, entry, ok) ==
    IF UpdateApplies(db, use, call_id, ok)
    THEN [db EXCEPT ![call_id].transcript = ArrayUnion(@, entry)]
    ELSE db

\* No FirebaseService operation has been called directly yet.
NoOp ==
    [name |-> "none", calls |-> 0, phone |-> <<>>, fallback |-> FALSE,
     raised |-> FALSE, context |-> DefaultContext]

\* A direct call: what the caller sees of it.
Called(name, raised) ==
    [op EXCEPT !.name = name, !.calls = @ + 1, !.raised = raised,
               !.phone = <<>>, !.fallback = FALSE]

RoomArgs == {"room-A", "room-B"}

\* The call ids a caller may pass: those log_call_start returned, or another.
CallIdArgs == {created[i] : i \in DOMAIN created} \cup {<<"doc", 0>>}

StatusArgs == {"human_handling", "completed"}

StoreLogCallStart(room_name, kind) ==
    /\ op.calls < MaxStoreCalls
    /\ Len(created) < MaxCreates
    /\ kind # "ok" => use_firebase
    /\ LET r == log_call_start(calls_db, use_firebase, next_doc + 1, room_name,
                               kind = "ok")
       IN /\ calls_db' = r.db
          /\ next_doc' = IF r.id = DocId(next_doc + 1) THEN next_doc + 1 ELSE next_doc
          /\ created' = Append(created, r.id)
    /\ op' = Called("log_call_start", use_firebase /\ Raises(kind, LogExcept))
    /\ UNCHANGED <<use_firebase, jobs, call, cleanup_tasks, tool, gateway>>

StoreUpdateStatus(call_id, status, kind) ==
    /\ op.calls < MaxStoreCalls
    /\ kind # "ok" => use_firebase
    /\ calls_db' = update_call_status(calls_db, use_firebase, call_id,
                                      [status |-> status], kind = "ok")
    /\ op' = Called("update_call_status", use_firebase /\ Raises(kind, UpdateExcept))
    /\ UNCHANGED <<use_firebase, next_doc, jobs, call, cleanup_tasks, tool,
                   gateway, created>>

StoreRequestHandoff(call_id, reason, kind) ==
    /\ op.calls < MaxStoreCalls
    /\ kind # "ok" => use_firebase
    /\ calls_db' = request_handoff(calls_db, use_firebase, call_id, reason, kind = "ok")
    /\ op' = Called("request_handoff", use_firebase /\ Raises(kind, UpdateExcept))
    /\ UNCHANGED <<use_firebase, next_doc, jobs, call, cleanup_tasks, tool,
                   gateway, created>>

StoreAppendTranscript(call_id, role, kind) ==
    /\ op.calls < MaxStoreCalls
    /\ kind # "ok" => use_firebase
    /\ calls_db' = append_transcript(calls_db, use_firebase, call_id,
                        [role |-> role, text |-> <<"hello">>, timestamp |-> op.calls],
                        kind = "ok")
    /\ op' = Called("append_transcript", use_firebase /\ Raises(kind, AppendExcept))
    /\ UNCHANGED <<use_firebase, next_doc, jobs, call, cleanup_tasks, tool,
                   gateway, created>>

StoreGetOrderContext(phone_number, kind) ==
    /\ op.calls < MaxStoreCalls
    /\ kind # "ok" => use_firebase
    /\ op' = [Called("get_order_context", use_firebase /\ Raises(kind, OrderExcept))
                EXCEPT !.phone = phone_number,
                       !.fallback = \/ ~use_firebase
                                    \/ kind # "ok"
                                    \/ \A doc \in Orders : doc.phone # phone_number,
                       !.context = get_order_context(use_firebase, Orders,
                                                     phone_number, kind)]
    /\ UNCHANGED <<use_firebase, calls_db, next_doc, jobs, call, cleanup_tasks,
                   tool, gateway, created>>

\* ---------------------------------------------------------- specification

Init ==
    /\ use_firebase \in BOOLEAN
    /\ calls_db = <<>>
    /\ next_doc = 0
    /\ jobs = {"c1"}
    /\ call = [c \in Calls |-> NewCall]
    /\ cleanup_tasks = [c \in Calls |-> <<>>]
    /\ tool = NewTool(FALSE, NoCallId, FALSE)
    /\ gateway = NewGateway
    /\ created = <<>>
    /\ op = NoOp

Next ==
    \/ \E c \in Calls, ok \in BOOLEAN : StartCall(c, ok)
    \/ \E c \in Calls, reason \in Reasons, ok \in BOOLEAN :
            TransferToHuman(c, reason, ok)
    \/ \E c \in Calls, reason \in Reasons : RegisterDone(c, reason)
    \/ \E c \in Calls, reason \in Reasons : BroadcastDone(c, reason)
    \/ \E c \in Calls, identity \in Identities, fail \in AudioFailures :
            ParticipantConnected(c, identity, fail)
    \/ \E c \in Calls : Disconnected(c)
    \/ \E c \in Calls, ok \in BOOLEAN : RunTask(c, ok)

Spec == Init /\ [][Next]_vars

\* The call machine with the other tool of the agent, send_link, running
\* beside the handoff.
LinkNext ==
    \/ Next
    \/ \E c \in Calls : SendLink(c)
    \/ \E c \in Calls, transport \in Transports : LinkDispatched(c, transport)

LinkSpec == Init /\ [][LinkNext]_vars

\* The event loop runs every created task, and a suspended handler resumes:
\* the POST is bounded by timeout=5.0 and publish_data returns or raises.
Fairness ==
    /\ \A c \in Calls : WF_vars(\E ok \in BOOLEAN : RunTask(c, ok))
    /\ \A c \in Calls : WF_vars(\E reason \in Reasons : RegisterDone(c, reason))
    /\ \A c \in Calls : WF_vars(\E reason \in Reasons : BroadcastDone(c, reason))
    /\ \A c \in Calls : WF_vars(\E transport \in Transports : LinkDispatched(c, transport))

FairSpec == Spec /\ Fairness

\* Two jobs at a time: one worker dispatches sales_agent for two rooms, both
\* calls using the FirebaseService of the process and the collection "calls".
RoomOf(c) == IF c = "c1" THEN "room-A" ELSE "room-B"

PairInit ==
    /\ use_firebase \in BOOLEAN
    /\ calls_db = <<>>
    /\ next_doc = 0
    /\ jobs = Calls
    /\ call = [c \in Calls |-> [NewCall EXCEPT !.room_name = RoomOf(c)]]
    /\ cleanup_tasks = [c \in Calls |-> <<>>]
    /\ tool = NewTool(FALSE, NoCallId, FALSE)
    /\ gateway = NewGateway
    /\ created = <<>>
    /\ op = NoOp

\* The transfer_to_human invocations of all calls.
PairInvocations ==
    HandlersAt(call["c1"].handlers, {"register", "broadcast", "done"})
    + HandlersAt(call["c2"].handlers, {"register", "broadcast", "done"})

\* The status tasks of all calls.
PairTasks == Len(cleanup_tasks["c1"]) + Len(cleanup_tasks["c2"])

\* The reason the conversational model gives in each call.
ReasonOf(c) == IF c = "c1" THEN <<"customer requested manager">> ELSE <<"complex issue">>

\* The interleavings of the events of the two calls; the store may fail to
\* create a record, and answers the writes that follow.
PairNext ==
    \/ \E c \in Calls, ok \in BOOLEAN : StartCall(c, ok)
    \/ \E c \in Calls :
            /\ PairInvocations < MaxPairToolCalls
            /\ TransferToHuman(c, ReasonOf(c), TRUE)
    \/ \E c \in Calls : RegisterDone(c, ReasonOf(c))
    \/ \E c \in Calls : BroadcastDone(c, ReasonOf(c))
    \/ \E c \in Calls, identity \in Identities, fail \in AudioFailures :
            /\ HandsOver(call[c].handoff_pending, identity) => PairTasks < MaxPairTasks
            /\ ParticipantConnected(c, identity, fail)
    \/ \E c \in Calls :
            /\ PairTasks < MaxPairTasks
            /\ Disconnected(c)
    \/ \E c \in Calls : RunTask(c, TRUE)

PairSpec == PairInit /\ [][PairNext]_vars

\* The stand-alone agent: a store that is live or not, with the record of one
\* call when log_call_start could write it; an agent built with or without
\* a store, a call id and a room.
ToolInit ==
    /\ use_firebase \in BOOLEAN
    /\ \E ok \in BOOLEAN :
        LET r == log_call_start(<<>>, use_firebase, 1, "room-A", ok)
        IN /\ calls_db = r.db
           /\ next_doc = IF r.id = DocId(1) THEN 1 ELSE 0
           /\ tool \in {NewTool(firebase, call_id, room) :
                            firebase \in BOOLEAN, call_id \in {NoCallId, r.id},
                            room \in BOOLEAN}
    /\ jobs = {}
    /\ call = [c \in Calls |-> NewCall]
    /\ cleanup_tasks = [c \in Calls |-> <<>>]
    /\ gateway = NewGateway
    /\ created = <<>>
    /\ op = NoOp

ToolNext ==
    \/ \E reason \in ReasonArgs : ToolTransferEnter(reason)
    \/ \E kind \in Outcomes : ToolPersist(kind)
    \/ \E kind \in Outcomes, items \in Histories : ToolTranscript(kind, items)
    \/ \E kind \in Outcomes : ToolRegister(kind)
    \/ \E kind \in Outcomes : ToolBroadcast(kind)
    \/ ToolReturn
    \/ \E platform \in PlatformArgs : SendLinkEnter(platform)
    \/ \E transport \in Transports, reached \in BOOLEAN, sent \in BOOLEAN :
            SendLinkDispatch(transport, reached, sent)

ToolSpec == ToolInit /\ [][ToolNext]_vars

\* The gateway process, with or without the TELEGRAM_* credentials.
GatewayInit ==
    /\ use_firebase = FALSE
    /\ calls_db = <<>>
    /\ next_doc = 0
    /\ jobs = {}
    /\ call = [c \in Calls |-> NewCall]
    /\ cleanup_tasks = [c \in Calls |-> <<>>]
    /\ tool = NewTool(FALSE, NoCallId, FALSE)
    /\ gateway \in {[NewGateway EXCEPT !.configured = configured] :
                        configured \in BOOLEAN}
    /\ created = <<>>
    /\ op = NoOp

GatewayNext ==
    \/ \E platform \in PlatformArgs, how \in ClientOutcomes, delivers \in BOOLEAN :
            GatewaySendLink(platform, how, delivers)
    \/ GatewayShutdown

GatewaySpec == GatewayInit /\ [][GatewayNext]_vars

\* FirebaseService(): the store is live when _init_firebase says so.
StoreInit ==
    /\ \E creds_found \in BOOLEAN, kind \in {"ok", "Exception"} :
            use_firebase = (init_firebase(creds_found, kind) /\ ~Raises(kind, InitExcept))
    /\ calls_db = <<>>
    /\ next_doc = 0
    /\ jobs = {}
    /\ call = [c \in Calls |-> NewCall]
    /\ cleanup_tasks = [c \in Calls |-> <<>>]
    /\ tool = NewTool(FALSE, NoCallId, FALSE)
    /\ gateway = NewGateway
    /\ created = <<>>
    /\ op = NoOp

StoreNext ==
    \/ \E room_name \in RoomArgs, kind \in {"ok", "Exception"} :
            StoreLogCallStart(room_name, kind)
    \/ \E call_id \in CallIdArgs, status \in StatusArgs, kind \in {"ok", "Exception"} :
            StoreUpdateStatus(call_id, status, kind)
    \/ \E call_id \in CallIdArgs, reason \in Reasons, kind \in {"ok", "Exception"} :
            StoreRequestHandoff(call_id, reason, kind)
    \/ \E call_id \in CallIdArgs, role \in {"user", "agent"}, kind \in {"ok", "Exception"} :
            StoreAppendTranscript(call_id, role, kind)
    \/ \E phone_number \in PhoneArgs, kind \in {"ok", "Exception"} :
            StoreGetOrderContext(phone_number, kind)

StoreSpec == StoreInit /\ [][StoreNext]_vars

\* ------------------------------------------------------- observed values

\* The persisted status of a call's record ("none": no record under its id).
Status(c) ==
    IF call[c].call_id \in DOMAIN calls_db
    THEN calls_db[call[c].call_id].status
    ELSE "none"

\* Side effects of transition 1 issued so far.  Each invocation calls
\* firebase.request_handoff (firebase and call_id are always set by
\* sales_agent) and issues the dashboard POST before it first suspends; it
\* publishes the data packet when the POST is over.
PersistIssued(c) == Invocations(c)

RegisterIssued(c) == Invocations(c)

BroadcastIssued(c) == HandlersAt(call[c].handlers, {"broadcast", "done"})

\* A transfer_to_human invocation of the call is suspended on the dashboard POST.
SuspendedOnRegister(c) == HandlersAt(call[c].handlers, {"register"}) > 0

\* ------------------------------------------------------------------ claims

\* C1: in every reachable state, under any ordering of handoff requests,
\* joins and disconnect, an AI audio direction that is disabled (the audio
\* is with the human) implies that the handoff flag is set.
C1_HumanAudioImpliesHandoffRequested ==
    \A c \in Calls :
        (~call[c].input_audio \/ ~call[c].output_audio) => call[c].handoff_pending

\* C1 witness: the operator has the audio after a requested handoff, and the
\* room has disconnected since.
C1_Witness ==
    \E c \in Calls :
        /\ ~call[c].input_audio /\ ~call[c].output_audio
        /\ call[c].handoff_pending
        /\ call[c].disconnected

\* C2: a join of an operator identity while no handoff is requested leaves
\* both AI audio directions as they were, and enabled, creates no status
\* task and writes nothing; the join is only logged (HANDOFF_IGNORED).
C2_IgnoredJoinChangesNothing ==
    [][\A c \in Calls, identity \in Identities, fail \in AudioFailures :
        ( /\ ~call[c].handoff_pending
          /\ IsHumanOperator(identity)
          /\ ParticipantConnected(c, identity, fail) )
        => /\ call'[c].input_audio /\ call'[c].output_audio
           /\ call'[c].input_audio = call[c].input_audio
           /\ call'[c].output_audio = call[c].output_audio
           /\ call'[c].handoff_pending = call[c].handoff_pending
           /\ call'[c].handoff_ignored
           /\ cleanup_tasks' = cleanup_tasks
           /\ calls_db' = calls_db]_vars

\* C2 witness: an operator join was ignored; the AI still has the audio.
C2_Witness ==
    \E c \in Calls :
        /\ call[c].handoff_ignored
        /\ ~call[c].handoff_pending
        /\ call[c].input_audio /\ call[c].output_audio
        /\ cleanup_tasks[c] = <<>>

\* C3: the flag is set as soon as a transfer_to_human invocation has started,
\* before any of its side effects is over; so an operator join processed
\* after the handler has started, also while it is suspended, finds the flag
\* set and hands over (creates the human_handling task) and is never ignored.
C3_FlagSetBeforeSideEffects ==
    [][\A c \in Calls :
        /\ call'[c].handlers # NoHandlers => call'[c].handoff_pending
        /\ \A identity \in Identities, fail \in AudioFailures :
            ( /\ call[c].handlers # NoHandlers
              /\ IsHumanOperator(identity)
              /\ ParticipantConnected(c, identity, fail) )
            => /\ cleanup_tasks'[c] =
                    Append(cleanup_tasks[c], Task(call[c].call_id, "human_handling"))
               /\ call'[c].handoff_ignored = call[c].handoff_ignored
               /\ ~call'[c].input_audio \/ fail = "input"]_vars

\* C3 witness: the operator joined and took the audio while an invocation was
\* still suspended on its dashboard POST.
C3_Witness ==
    \E c \in Calls :
        /\ SuspendedOnRegister(c)
        /\ ~call[c].input_audio /\ ~call[c].output_audio
        /\ ~call[c].handoff_ignored

\* The step is an operator join that finds the handoff flag set.
OperatorJoinAfterRequest(c, identity, fail) ==
    /\ call[c].handoff_pending
    /\ IsHumanOperator(identity)
    /\ ParticipantConnected(c, identity, fail)

\* The step runs the call's oldest task, a write of `status` that reaches the
\* call record (live store, existing document, no backend error).
AppliesStatus(c, status) ==
    /\ PendingTasks(c) # {}
    /\ cleanup_tasks[c][NextTask(c)].status = status
    /\ \E ok \in BOOLEAN :
        /\ UpdateApplies(calls_db, use_firebase,
                         cleanup_tasks[c][NextTask(c)].call_id, ok)
        /\ RunTask(c, ok)

\* The step runs the call's oldest task, and that task writes `status`.
RunsStatus(c, status) ==
    /\ PendingTasks(c) # {}
    /\ cleanup_tasks[c][NextTask(c)].status = status
    /\ \E ok \in BOOLEAN : RunTask(c, ok)

TasksKept(c) ==
    \A k \in DOMAIN cleanup_tasks[c] :
        /\ k \in DOMAIN cleanup_tasks'[c]
        /\ cleanup_tasks'[c][k].call_id = cleanup_tasks[c][k].call_id
        /\ cleanup_tasks'[c][k].status = cleanup_tasks[c][k].status
        /\ cleanup_tasks[c][k].done => cleanup_tasks'[c][k].done

C5_SecondRequestKeepsState ==
    [][\A c \in Calls, reason \in Reasons, ok \in BOOLEAN :
        TransferToHuman(c, reason, ok)
        => /\ call'[c].handoff_pending
           /\ call[c].handlers # NoHandlers
              => /\ call'[c].handoff_pending = call[c].handoff_pending
                 /\ call'[c].input_audio = call[c].input_audio
                 /\ call'[c].output_audio = call[c].output_audio]_vars

\* C5 witness: transfer_to_human was invoked twice on the call.
C5_Witness ==
    \E c \in Calls : Invocations(c) = 2 /\ call[c].handoff_pending

\* C6: over a call, the handoff write, the dashboard registration and the
\* handoff broadcast are each issued at most once.
C6_SideEffectsAtMostOnce ==
    \A c \in Calls :
        /\ PersistIssued(c) <= 1
        /\ RegisterIssued(c) <= 1
        /\ BroadcastIssued(c) <= 1

\* Every status write of the call so far has reached the record: no task is
\* waiting and none ended at the log line of update_call_status.
AllWritesApplied(c) == PendingTasks(c) = {} /\ ~call[c].mock_logged

\* C7: after a room disconnect, once every write dispatched for the call has
\* been applied, the persisted status of the call is completed.
C7_DisconnectEndsCompleted ==
    \A c \in Calls :
        (call[c].disconnected /\ AllWritesApplied(c)) => Status(c) = "completed"

\* The step belongs to a transfer_to_human invocation or to a join.
ToolOrJoinStep(c) ==
    \/ \E reason \in Reasons : RegisterDone(c, reason) \/ BroadcastDone(c, reason)
    \/ \E reason \in Reasons, ok \in BOOLEAN : TransferToHuman(c, reason, ok)
    \/ \E identity \in Identities, fail \in AudioFailures :
            ParticipantConnected(c, identity, fail)

\* C8: once the disconnect has been processed, no transfer_to_human step and
\* no join changes the flag, the AI audio or the persisted record, creates a
\* task or issues a side effect.
C8_CompletedIsTerminal ==
    [][\A c \in Calls :
        (call[c].disconnected /\ ToolOrJoinStep(c))
        => /\ call'[c].handoff_pending = call[c].handoff_pending
           /\ call'[c].input_audio = call[c].input_audio
           /\ call'[c].output_audio = call[c].output_audio
           /\ calls_db' = calls_db
           /\ cleanup_tasks' = cleanup_tasks
           /\ PersistIssued(c)' = PersistIssued(c)
           /\ RegisterIssued(c)' = RegisterIssued(c)
           /\ BroadcastIssued(c)' = BroadcastIssued(c)]_vars

\* The order of the status lifecycle.
StatusRank(status) ==
    CASE status = "none" -> 0
      [] status = "in_progress" -> 1
      [] status = "handoff" -> 2
      [] status = "human_handling" -> 3
      [] status = "completed" -> 4

\* C9: the persisted status of a call never moves back along
\* in_progress -> handoff -> human_handling -> completed.
C9_StatusNeverRegresses ==
    [][\A c \in Calls : StatusRank(Status(c)') >= StatusRank(Status(c))]_vars

\* C10: the flag starts false, changes only in a transfer_to_human step,
\* which sets it, and is never cleared.
C10_FlagSetOnceNeverCleared ==
    /\ \A c \in Calls : ~call[c].handoff_pending
    /\ [][\A c \in Calls :
            /\ call[c].handoff_pending => call'[c].handoff_pending
            /\ (~call[c].handoff_pending /\ call'[c].handoff_pending)
               => \E reason \in Reasons, ok \in BOOLEAN : TransferToHuman(c, reason, ok)
            /\ \A reason \in Reasons, ok \in BOOLEAN :
                TransferToHuman(c, reason, ok) => call'[c].handoff_pending]_vars

\* C10 witness: the flag is still set after the operator joined, the room
\* disconnected, every handler returned and every task ran, a write having
\* failed on the way.
C10_Witness ==
    \E c \in Calls :
        /\ call[c].handoff_pending
        /\ call[c].disconnected
        /\ call[c].mock_logged
        /\ Len(cleanup_tasks[c]) = 2 /\ PendingTasks(c) = {}
        /\ Invocations(c) > 0
        /\ HandlersAt(call[c].handlers, {"done"}) = Invocations(c)

\* The handoff reason recorded for a call ("<unset>": none, or no record).
HandoffReason(c) ==
    IF call[c].call_id \in DOMAIN calls_db
    THEN calls_db[call[c].call_id].handoff_reason
    ELSE NoReason

\* C11: the handoff reason of a call record is set at most once: once a
\* reason is recorded, no later step (in particular no later
\* transfer_to_human with another reason) replaces it.
C11_ReasonSetAtMostOnce ==
    [][\A c \in Calls :
        HandoffReason(c) # NoReason => HandoffReason(c)' = HandoffReason(c)]_vars

\* The stand-alone agent has returned from (or been left by) the named tool.
Returned(name) == tool.name = name /\ tool.pc = "idle"

\* C12: transfer_to_human never raises, and returns the same fixed
\* announcement whatever succeeds or fails among the handoff write, the
\* transcript extraction, the dashboard registration and the broadcast, and
\* whether or not the agent has a store, a call id or a room.
C12_TransferAlwaysAnnounces ==
    tool.name = "transfer_to_human"
    => /\ ~tool.raised
       /\ tool.pc = "idle" => tool.ret = TransferText

\* C12 witness: the announcement was returned although all four steps failed.
C12_Witness ==
    /\ Returned("transfer_to_human")
    /\ tool.ret = TransferText
    /\ tool.failed = {"persist", "transcript", "register", "broadcast"}

\* C13: when a transfer_to_human invocation is over, each of the three side
\* effects its collaborators allow has been attempted (the handoff write
\* with a store and a call id, the registration always, the broadcast with
\* a room), whichever of the others failed.
C13_SideEffectsIndependent ==
    Returned("transfer_to_human")
    => /\ "persist" \in tool.attempted <=> Persists(tool)
       /\ "register" \in tool.attempted
       /\ "broadcast" \in tool.attempted <=> tool.room

\* C13 witness: the write and the registration failed, the broadcast was
\* still published.
C13_Witness ==
    /\ Returned("transfer_to_human")
    /\ tool.failed = {"persist", "register"}
    /\ tool.attempted = {"persist", "register", "broadcast"}
    /\ Len(tool.published) = 1

\* JSON text of a string: the double quote and the backslash are escaped.
RECURSIVE JsonEscape(_)
JsonEscape(text) ==
    IF text = <<>> THEN <<>>
    ELSE (IF Head(text) \in {DQ, BS} THEN <<BS, Head(text)>> ELSE <<Head(text)>>)
         \o JsonEscape(Tail(text))

JsonString(text) == <<DQ>> \o JsonEscape(text) \o <<DQ>>

\* The JSON encoding of {type: "handoff", call_id, reason}.
HandoffJson(call_id, reason) ==
    <<"{">> \o JsonString(<<"type">>) \o <<":">> \o JsonString(<<"handoff">>)
    \o <<",">> \o JsonString(<<"call_id">>) \o <<":">>
    \o JsonString(FormatCallId(call_id))
    \o <<",">> \o JsonString(<<"reason">>) \o <<":">> \o JsonString(reason)
    \o <<"}">>

\* The first invocation of an agent with a live store, the record of its
\* call and a room is over, and no collaborator failed.
HealthyFirstTransfer ==
    /\ Returned("transfer_to_human")
    /\ tool.runs = 1
    /\ use_firebase /\ Persists(tool) /\ tool.call_id \in DOMAIN calls_db
    /\ tool.room
    /\ tool.failed = {}

\* C14: transfer_to_human on a fresh agent with healthy collaborators leaves
\* the flag set and the AI audio enabled, the call record at
\* handoff_requested = true, status = handoff and the given reason, and has
\* published one data packet, the JSON encoding of type = handoff, the
\* call id and the reason.
C14_ScenarioB ==
    HealthyFirstTransfer
    => /\ tool.handoff_pending
       /\ tool.input_audio /\ tool.output_audio
       /\ \A f \in DOMAIN HandoffFields(tool.reason) :
            calls_db[tool.call_id][f] = HandoffFields(tool.reason)[f]
       /\ tool.attempted = {"persist", "register", "broadcast"}
       /\ tool.published = <<HandoffJson(tool.call_id, tool.reason)>>

\* The dispatch of the last send_link succeeded: the gateway answered 2xx.
DispatchSucceeded ==
    tool.response.transport = "response" /\ tool.response.status \in 200..299

\* C15: send_link never raises; it returns the confirmation when the
\* gateway answers 2xx, and otherwise (another status, a network error, a
\* timeout) one of the two fallback texts that offer the link verbally, the
\* "try again later" one on a timeout; never the confirmation.
C15_SendLinkNeverRaises ==
    tool.name = "send_link"
    => /\ ~tool.raised
       /\ tool.pc = "idle"
          => /\ DispatchSucceeded => tool.ret = LinkSent(tool.platform)
             /\ ~DispatchSucceeded
                => /\ tool.ret \in {LinkNotSent(tool.platform), LinkIssue}
                   /\ tool.ret # LinkSent(tool.platform)
             /\ tool.response.transport = "TimeoutException"
                => tool.ret = LinkNotSent(tool.platform)

\* C15 witness: the POST timed out after the gateway had delivered the
\* message; the tool returned the fallback.
C15_Witness ==
    /\ Returned("send_link")
    /\ tool.response.transport = "TimeoutException"
    /\ tool.ret = LinkNotSent("telegram")
    /\ gateway.delivered = 1

\* C16: every send_link invocation makes exactly one POST to the gateway;
\* for a platform other than telegram and viber the gateway delivers
\* nothing and the tool does not return the confirmation.
C16_UnsupportedChannelRejected ==
    [][\A transport \in Transports, reached \in BOOLEAN, sent \in BOOLEAN :
        SendLinkDispatch(transport, reached, sent)
        => /\ tool'.posts = 1
           /\ tool.platform \notin SupportedPlatforms
              => /\ gateway'.delivered = gateway.delivered
                 /\ tool'.ret # LinkSent(tool.platform)
                 /\ ~tool'.raised]_vars

\* C16 witness: the gateway refused platform "whatsapp" with 422 and the
\* tool returned the fallback.
C16_Witness ==
    /\ Returned("send_link")
    /\ tool.platform = "whatsapp"
    /\ tool.response = [transport |-> "response", status |-> 422]
    /\ tool.ret = LinkNotSent("whatsapp")
    /\ tool.posts = 1
    /\ gateway.requests = 1
    /\ gateway.delivered = 0

\* C17: get_order_context never raises and returns a context with all six
\* fields; with the store unconfigured, a failing lookup or no matching
\* order it returns the fixed default record (product Samsung Galaxy S24).
C17_OrderContextAlwaysComplete ==
    op.name = "get_order_context"
    => /\ ~op.raised
       /\ DOMAIN op.context = OrderFields
       /\ op.fallback
          => /\ op.context = DefaultContext
             /\ op.context.product_name = "Samsung Galaxy S24"
       /\ ~op.fallback
          => \E doc \in Orders : doc.phone = op.phone /\ op.context.order_id = doc.id

\* C17 witness: the live store holds no order for the caller; the default
\* record was returned.
C17_Witness ==
    /\ op.name = "get_order_context"
    /\ use_firebase
    /\ op.phone = <<"+380990000000">>
    /\ op.fallback
    /\ op.context = DefaultContext

\* C18: no FirebaseService operation raises to its caller, whether the store
\* is live, live with a failing backend, or degraded; in degraded mode no
\* operation changes a persisted record and a lookup returns the default
\* context.
C18_StoreNeverRaises ==
    [][op'.calls # op.calls
        => /\ ~op'.raised
           /\ ~use_firebase
              => /\ calls_db' = calls_db
                 /\ op'.name = "get_order_context" => op'.context = DefaultContext]_vars

\* C18 witness: a handoff was requested on a call created in degraded mode;
\* nothing is persisted.
C18_Witness ==
    /\ ~use_firebase
    /\ op.name = "request_handoff"
    /\ ~op.raised
    /\ Len(created) = 1
    /\ calls_db = <<>>

\* C19: any two log_call_start calls return different call ids.
C19_FreshCallIds ==
    \A i, j \in DOMAIN created : i # j => created[i] # created[j]

\* The handoff flag and the AI audio of a call.
Ownership(c) ==
    <<call[c].handoff_pending, call[c].input_audio, call[c].output_audio>>

\* The step is the completion of an asynchronous side effect of the call: a
\* dashboard POST or a publish_data that is over, a status write run by the
\* event loop (applied or not), a link dispatch that is over.
SideEffectCompletes(c) ==
    \/ \E reason \in Reasons : RegisterDone(c, reason) \/ BroadcastDone(c, reason)
    \/ \E ok \in BOOLEAN : RunTask(c, ok)
    \/ \E transport \in Transports : LinkDispatched(c, transport)

\* The step is the synchronous part of transfer_to_human or the join handler.
SynchronousTransition(c) ==
    \/ \E reason \in Reasons, ok \in BOOLEAN : TransferToHuman(c, reason, ok)
    \/ \E identity \in Identities, fail \in AudioFailures :
            ParticipantConnected(c, identity, fail)

EventOf(c) ==
    \/ \E ok \in BOOLEAN : StartCall(c, ok)
    \/ \E reason \in Reasons, ok \in BOOLEAN : TransferToHuman(c, reason, ok)
    \/ \E reason \in Reasons : RegisterDone(c, reason)
    \/ \E reason \in Reasons : BroadcastDone(c, reason)
    \/ \E identity \in Identities, fail \in AudioFailures :
            ParticipantConnected(c, identity, fail)
    \/ Disconnected(c)
    \/ \E ok \in BOOLEAN : RunTask(c, ok)

\* C21: two concurrent calls with different call ids are independent: the
\* handoff flag, the AI audio state and the persisted record of a call change
\* only in an event of that call (handoff request and its resumptions,
\* participant join, disconnect, status task), never in an event of the
\* other call, under any interleaving of the events of both.
C21_ConcurrentCallsIndependent ==
    [][\A d \in Calls :
          ( /\ call[d].phase = "active"
            /\ \A c \in Calls \ {d} : call'[c].call_id # call[d].call_id
            /\ \/ call'[d].handoff_pending # call[d].handoff_pending
               \/ call'[d].input_audio # call[d].input_audio
               \/ call'[d].output_audio # call[d].output_audio
               \/ call'[d].call_id # call[d].call_id
               \/ (call[d].call_id \in DOMAIN calls_db')
                        # (call[d].call_id \in DOMAIN calls_db)
               \/ /\ call[d].call_id \in DOMAIN calls_db
                  /\ calls_db'[call[d].call_id] # calls_db[call[d].call_id] )
          => EventOf(d)]_vars

\* Two calls with records of their own, one handed over to the operator and
\* its record updated, the other untouched and still with the agent.
C21_Witness ==
    /\ call["c1"].phase = "active" /\ call["c2"].phase = "active"
    /\ call["c1"].call_id # call["c2"].call_id
    /\ call["c1"].call_id \in DOMAIN calls_db
    /\ call["c2"].call_id \in DOMAIN calls_db
    /\ calls_db[call["c1"].call_id].status = "human_handling"
    /\ ~call["c1"].input_audio /\ ~call["c1"].output_audio
    /\ calls_db[call["c2"].call_id].status = "in_progress"
    /\ ~calls_db[call["c2"].call_id].handoff_requested
    /\ ~call["c2"].handoff_pending
    /\ call["c2"].input_audio /\ call["c2"].output_audio

\* C22: once an operator-identity join has been ignored because no handoff
\* was requested (HANDOFF_IGNORED), the audio stays with the agent for the
\* rest of the call, whatever tool invocations and joins follow.
C22_IgnoredJoinIsTerminal ==
    \A c \in Calls :
        call[c].handoff_ignored => call[c].input_audio /\ call[c].output_audio

\* The characters of a text up to the end of its k-th run.
RunEnd(text, k) == TextLen(SubSeq(text, 1, k))

\* The run that holds character i of a text.
RunAt(text, i) ==
    CHOOSE k \in DOMAIN text : RunEnd(text, k - 1) < i /\ i <= RunEnd(text, k)

\* `short` is the first TextLen(short) characters of `original`: each run of
\* it lies inside one run of the original, of the same character.
FirstChars(short, original) ==
    /\ TextLen(short) <= TextLen(original)
    /\ \A k \in DOMAIN short :
          /\ RunAt(original, RunEnd(short, k - 1) + 1) = RunAt(original, RunEnd(short, k))
          /\ original[RunAt(original, RunEnd(short, k))][1] = short[k][1]

\* The positions of the history items that are messages with a text.
MessagesWithText(items) ==
    {i \in DOMAIN items :
        items[i].type = "message" /\ TextLen(items[i].text_content) > 0}

\* The j-th of them.
NthMessage(items, j) ==
    CHOOSE i \in MessagesWithText(items) :
        Cardinality({k \in MessagesWithText(items) : k < i}) = j - 1

\* C23: the transcript in the body of the POST to the dashboard registration
\* endpoint holds, in session-history order, exactly one entry per history
\* message item with a non-empty text, each with speaker user (for a user
\* item) or agent and with the first 500 characters of the item's text as
\* its text; it is empty when the history could not be read.
C23_TranscriptForwardedTruncated ==
    \A n \in DOMAIN tool.registered :
        LET transcript == tool.registered[n].transcript
            items == tool.history
        IN IF "transcript" \in tool.failed THEN transcript = <<>>
           ELSE /\ Len(transcript) = Cardinality(MessagesWithText(items))
                /\ \A j \in DOMAIN transcript :
                      LET item == items[NthMessage(items, j)]
                          entry == transcript[j]
                      IN /\ entry.speaker \in {"user", "agent"}
                         /\ (entry.speaker = "user") = (item.role = "user")
                         /\ TextLen(entry.text) <= TranscriptLimit
                         /\ \/ TextLen(entry.text) = TextLen(item.text_content)
                            \/ TextLen(entry.text) = TranscriptLimit
                         /\ FirstChars(entry.text, item.text_content)

\* A registration whose transcript leaves out items of the history and
\* holds an entry cut to 500 characters of a longer text.
C23_Witness ==
    /\ tool.registered # <<>>
    /\ "transcript" \notin tool.failed
    /\ Len(tool.registered[1].transcript) = 2
    /\ Len(tool.history) = 4
    /\ TextLen(tool.history[4].text_content) = 1000
    /\ tool.registered[1].transcript[2] =
            [speaker |-> "agent", text |-> << <<"a", 250>>, <<"b", 250>> >>,
             timestamp |-> <<>>]
    /\ tool.registered[1].transcript[1].speaker = "agent"

\* A write of status = human_handling has been dispatched for the call.
HumanHandlingDispatched(c) ==
    \E k \in DOMAIN cleanup_tasks[c] : cleanup_tasks[c][k].status = "human_handling"

\* C24: in every state between two events the inbound and the outbound AI
\* audio flag of a call are equal, and a write of status = human_handling
\* has been dispatched only if both are disabled, also when one of the two
\* disable calls of the join handler fails.
C24_AudioFlagsEqual ==
    \A c \in Calls :
        /\ call[c].input_audio = call[c].output_audio
        /\ HumanHandlingDispatched(c) =>
                ~call[c].input_audio /\ ~call[c].output_audio

NotOperatorIdentity(identity) ==
    \/ Len(identity) < Len(HumanOperatorPrefix)
    \/ \E i \in DOMAIN HumanOperatorPrefix : identity[i] # HumanOperatorPrefix[i]

\* C26: a participant join whose identity does not start with the
\* human-operator prefix is a no-op in every state, also with a handoff
\* pending: it changes neither the handoff flag nor the AI audio state,
\* creates no status task and writes nothing to the store.
C26_OtherJoinIsNoOp ==
    [][\A c \in Calls : \A identity \in Identities :
          ( /\ NotOperatorIdentity(identity)
            /\ \E fail \in AudioFailures : ParticipantConnected(c, identity, fail) )
          => /\ call'[c].handoff_pending = call[c].handoff_pending
             /\ call'[c].input_audio = call[c].input_audio
             /\ call'[c].output_audio = call[c].output_audio
             /\ cleanup_tasks' = cleanup_tasks
             /\ calls_db' = calls_db]_vars

\* A handoff is pending, the audio is with the agent and no status task
\* exists, and participants that are not operators can join: the caller,
\* and one whose identity shares the beginning of the operator prefix.
C26_Witness ==
    \E c \in Calls :
        /\ call[c].handoff_pending
        /\ call[c].input_audio /\ call[c].output_audio
        /\ cleanup_tasks[c] = <<>>
        /\ ENABLED ParticipantConnected(c, <<"+380501234567">>, "none")
        /\ ENABLED ParticipantConnected(c, <<"human", "_", "agent">>, "none")

\* C27: across any sequence of /send-link requests get_telethon_client
\* returns a client only if that client's connect succeeded, and after a
\* failed connect the cached global client is not an unconnected one (so a
\* telegram send does not turn from mock success to failure).
C27_CachedClientIsConnected ==
    /\ gateway.returned \in {"None", "connected"}
    /\ gateway.telethon_client \in {"None", "connected"}

====
